---- MODULE Spec2Model ----
(***************************************************************************)
(* The consistent-hashing target allocator of the OpenTelemetry operator   *)
(* (cmd/otel-allocator/allocation/consistent_hashing.go).                  *)
(*                                                                         *)
(* Collector names are the integers 1..NumCollectors, target hashes (the   *)
(* keys of targetItems) are the integers 1..NumTargetKeys.  NoName stands  *)
(* for the empty string in a TargetItem's CollectorName field.             *)
(***************************************************************************)
EXTENDS Integers, Sequences, FiniteSets, TLC

\* ---------------------------------------------------------------- bounds
NumCollectors == 2
NumTargetKeys == 2
MaxCalls == 3
MaxSeed == 1
MaxWrites == 1

Names == 1..NumCollectors
Keys == 1..NumTargetKeys
NoName == 0
CollectorNameValues == {NoName} \cup Names
\* the CollectorName a caller's TargetItem carries into SetTargets: empty, or
\* the name of collector 1 (which may or may not be live at the call)
SuppliedCollectorNames == {NoName, 1}

VARIABLES
    seed,                  \* which hash function hasher{} / the ring library realise
    consistentHasher,      \* the member set of c.consistentHasher
    collectors,            \* c.collectors: name -> [Name, NumTargets]
    targetItems,           \* c.targetItems: hash -> [CollectorName]
    TargetsPerCollector,   \* gauge, label collector name -> value (absent: never set)
    CollectorsAllocatable, \* gauge of the strategy: [set, v]
    TimeToAssign,          \* histogram: number of observations per method label
    panicked,              \* a nil dereference happened (the process is gone)
    lastCall,              \* the last call made: its method and argument, whether it
                           \* computed an empty diff, whether it repeated the call
                           \* before it, the targets whose owner it was to remove,
                           \* the targets it was to forget, the targets it found
                           \* live and supplied again, the targets supplied since
                           \* the last SetTargets call found no collector
    snapTargets,           \* a caller's map returned by TargetItems()
    snapCollectors,        \* a caller's map returned by Collectors()
    callerWrites,          \* how many writes callers made to the maps they were given
    past,                  \* the contents the allocator had between complete calls
                           \* (kept where readers are studied)
    mutex,                 \* c.m: the writer that owns it and the readers inside
    pc,                    \* where each goroutine is in the method it called
    call                   \* the method each goroutine called, its argument, what
                           \* its loops still have to visit, the state it locked

allocVars == <<consistentHasher, collectors, targetItems, panicked>>
metricVars == <<TargetsPerCollector, CollectorsAllocatable, TimeToAssign>>
snapVars == <<snapTargets, snapCollectors, callerWrites>>
procVars == <<mutex, pc, call>>
vars == <<seed, consistentHasher, collectors, targetItems, TargetsPerCollector,
          CollectorsAllocatable, TimeToAssign, panicked, lastCall,
          snapTargets, snapCollectors, callerWrites, past, mutex, pc, call>>

\* ------------------------------------------------------------- utilities
EmptyMap == [x \in {} |-> 0]

Restrict(f, S) == [x \in S |-> f[x]]

\* f with the entries of g written over it (Go: m[k] = v for k, v in g)
Overwrite(f, g) == [x \in (DOMAIN f) \cup (DOMAIN g) |->
                      IF x \in DOMAIN g THEN g[x] ELSE f[x]]

RECURSIVE SumOver(_, _)
SumOver(f, S) ==
    IF S = {} THEN 0
    ELSE LET x == CHOOSE y \in S : TRUE IN f[x] + SumOver(f, S \ {x})

\* the orders in which a Go map with key set S may be ranged over
Orders(S) == {q \in [1..Cardinality(S) -> S] : \A x \in S : \E i \in DOMAIN q : q[i] = x}

\* the n-th smallest element (n from 0) of a non-empty set of integers
RECURSIVE Nth(_, _)
Nth(S, n) ==
    LET m == CHOOSE x \in S : \A y \in S : x <= y
    IN  IF n = 0 THEN m ELSE Nth(S \ {m}, n - 1)

\* --------------------------------------------------------- the hash ring
\* consistent.Consistent.LocateKey: the ring library maps a key to one of its
\* members, as a function of the key and of the current member set alone
\* (partitions are redistributed from scratch on every Add and Remove).
\* Which function is fixed by xxhash and the ring parameters; seed ranges
\* over a family of such functions.  An empty ring has no owner (nil).
Nil == -1

LocateKey(members, key) ==
    IF members = {} THEN Nil
    ELSE Nth(members, ((seed + 1) * key + SumOver([m \in members |-> m * m], members))
                        % Cardinality(members))

\* ------------------------------------------------------------ c's state
\* The allocator's fields and the per-collector gauge, as one value the
\* private methods transform.
AllocState == [collectors |-> collectors, targetItems |-> targetItems,
               ring |-> consistentHasher, tpc |-> TargetsPerCollector,
               panic |-> panicked]

NewCollector(name) == [Name |-> name, NumTargets |-> 0]

GaugeSet(g, label, v) == Overwrite(g, [x \in {label} |-> v])

\* diff.Maps(current, new): additions are the entries of new whose key is not
\* in current, removals the entries of current whose key is not in new.
DiffMaps(current, new) ==
    [additions |-> Restrict(new, (DOMAIN new) \ (DOMAIN current)),
     removals  |-> Restrict(current, (DOMAIN current) \ (DOMAIN new))]

\* addTargetToTargetItems without lines 63-66: a re-assignment is not noticed
decrementPreviousSkipped(a, target) == a

\* lines 63-66: the decrement of the previous collector
decrementPrevious(a, target) ==
    IF target.CollectorName \in DOMAIN a.collectors
    THEN LET n == a.collectors[target.CollectorName].NumTargets - 1
         IN  [a EXCEPT !.collectors[target.CollectorName].NumTargets = n,
                       !.tpc = GaugeSet(a.tpc, target.CollectorName, n)]
    ELSE a

\* assignOwner without line 75: the new TargetItem is counted but not stored
assignOwnerForgetsItem(a, key) ==
    LET colOwner == LocateKey(a.ring, key)
    IN  IF colOwner \notin DOMAIN a.collectors
        THEN [a EXCEPT !.panic = TRUE]
        ELSE LET n == a.collectors[colOwner].NumTargets + 1
             IN  [a EXCEPT !.collectors[colOwner].NumTargets = n,
                           !.tpc = GaugeSet(a.tpc, colOwner, n)]

\* assignOwner choosing the least loaded collector instead of the ring owner
assignOwnerLeastLoaded(a, key) ==
    IF DOMAIN a.collectors = {} THEN [a EXCEPT !.panic = TRUE]
    ELSE LET colOwner == CHOOSE c \in DOMAIN a.collectors :
                 \A o \in DOMAIN a.collectors :
                     \/ a.collectors[c].NumTargets < a.collectors[o].NumTargets
                     \/ a.collectors[c].NumTargets = a.collectors[o].NumTargets /\ c <= o
             n == a.collectors[colOwner].NumTargets + 1
         IN  [a EXCEPT !.targetItems =
                           Overwrite(a.targetItems,
                                     [k \in {key} |-> [CollectorName |-> colOwner]]),
                       !.collectors[colOwner].NumTargets = n,
                       !.tpc = GaugeSet(a.tpc, colOwner, n)]

\* lines 67-77: locate the owner, store a new TargetItem, count it
assignOwner(a, key) ==
    LET colOwner == LocateKey(a.ring, key)
    IN  IF colOwner \notin DOMAIN a.collectors
        THEN [a EXCEPT !.panic = TRUE]
        ELSE LET n == a.collectors[colOwner].NumTargets + 1
             IN  [a EXCEPT !.targetItems =
                               Overwrite(a.targetItems,
                                         [k \in {key} |-> [CollectorName |-> colOwner]]),
                           !.collectors[colOwner].NumTargets = n,
                           !.tpc = GaugeSet(a.tpc, colOwner, n)]

addTargetToTargetItems(a, key, target) ==
    IF a.panic THEN a
    ELSE assignOwner(decrementPrevious(a, target), key)

\* removeTarget without line 90: the target is uncounted but stays in the map
removeTargetKeepsItem(a, k) ==
    LET owner == a.targetItems[k].CollectorName
    IN  IF a.panic THEN a
        ELSE IF owner \notin DOMAIN a.collectors
        THEN [a EXCEPT !.panic = TRUE]
        ELSE LET n == a.collectors[owner].NumTargets - 1
             IN  [a EXCEPT !.collectors[owner].NumTargets = n,
                           !.tpc = GaugeSet(a.tpc, owner, n)]

\* a removal that retires the owner when its last target goes
removeTargetRetiresIdleOwner(a, k) ==
    LET owner == a.targetItems[k].CollectorName
    IN  IF a.panic THEN a
        ELSE IF owner \notin DOMAIN a.collectors
        THEN [a EXCEPT !.panic = TRUE]
        ELSE LET n == a.collectors[owner].NumTargets - 1
                 b == [a EXCEPT !.collectors[owner].NumTargets = n,
                                !.targetItems = Restrict(a.targetItems,
                                                         (DOMAIN a.targetItems) \ {k}),
                                !.tpc = GaugeSet(a.tpc, owner, n)]
             IN  IF n > 0 THEN b
                 ELSE [b EXCEPT !.collectors = Restrict(b.collectors,
                                                   (DOMAIN b.collectors) \ {owner}),
                                !.ring = b.ring \ {owner}]

\* lines 87-92: one removal of handleTargets
removeTarget(a, k) ==
    LET owner == a.targetItems[k].CollectorName
    IN  IF a.panic THEN a
        ELSE IF owner \notin DOMAIN a.collectors
        THEN [a EXCEPT !.panic = TRUE]
        ELSE LET n == a.collectors[owner].NumTargets - 1
             IN  [a EXCEPT !.collectors[owner].NumTargets = n,
                           !.targetItems = Restrict(a.targetItems,
                                                    (DOMAIN a.targetItems) \ {k}),
                           !.tpc = GaugeSet(a.tpc, owner, n)]

\* the removals loop without the check of line 87: every live target goes
RECURSIVE removeEveryTarget(_, _)
removeEveryTarget(a, S) ==
    IF S = {} THEN a
    ELSE LET k == CHOOSE x \in S : \A y \in S : x <= y
         IN  removeEveryTarget(removeTarget(a, k), S \ {k})

removeTargetsUnchecked(a, order, i) == removeEveryTarget(a, DOMAIN a.targetItems)

RECURSIVE removeTargets(_, _, _)
removeTargets(a, order, i) ==
    IF i > Len(order) THEN a
    ELSE removeTargets(removeTarget(a, order[i]), order, i + 1)

\* the additions loop with the check of line 98 the wrong way round
RECURSIVE addTargetsOnlyLive(_, _, _, _)
addTargetsOnlyLive(a, additions, order, i) ==
    IF i > Len(order) THEN a
    ELSE LET k == order[i]
             a1 == IF k \notin DOMAIN a.targetItems THEN a
                   ELSE addTargetToTargetItems(a, k, additions[k])
         IN  addTargetsOnlyLive(a1, additions, order, i + 1)

\* lines 96-104: the additions of handleTargets
RECURSIVE addTargets(_, _, _, _)
addTargets(a, additions, order, i) ==
    IF i > Len(order) THEN a
    ELSE LET k == order[i]
             a1 == IF k \in DOMAIN a.targetItems THEN a
                   ELSE addTargetToTargetItems(a, k, additions[k])
         IN  addTargets(a1, additions, order, i + 1)

handleTargets(a, d, rmOrder, addOrder) ==
    addTargets(removeTargets(a, rmOrder, 1), d.additions, addOrder, 1)

\* removeCollector without line 113: the collector stays in c.collectors
removeCollectorKeepsEntry(a, name) ==
    [a EXCEPT !.ring = a.ring \ {name},
              !.tpc = GaugeSet(a.tpc, name, 0)]

\* removeCollector without line 114: the collector stays on the ring
removeCollectorKeepsRingMember(a, name) ==
    [a EXCEPT !.collectors = Restrict(a.collectors, (DOMAIN a.collectors) \ {name}),
              !.tpc = GaugeSet(a.tpc, name, 0)]

\* removeCollector without line 115: the gauge keeps its last value
removeCollectorKeepsGauge(a, name) ==
    [a EXCEPT !.collectors = Restrict(a.collectors, (DOMAIN a.collectors) \ {name}),
              !.ring = a.ring \ {name}]

\* lines 112-116: one removed collector
removeCollector(a, name) ==
    [a EXCEPT !.collectors = Restrict(a.collectors, (DOMAIN a.collectors) \ {name}),
              !.ring = a.ring \ {name},
              !.tpc = GaugeSet(a.tpc, name, 0)]

RECURSIVE removeCollectors(_, _, _)
removeCollectors(a, order, i) ==
    IF i > Len(order) THEN a
    ELSE removeCollectors(removeCollector(a, order[i]), order, i + 1)

\* lines 118-121: one added collector
\* addCollector without line 120: the ring does not learn the new collector
addCollectorSkipsRing(a, name) ==
    [a EXCEPT !.collectors = Overwrite(a.collectors, [x \in {name} |-> NewCollector(name)])]

addCollector(a, name) ==
    [a EXCEPT !.collectors = Overwrite(a.collectors, [x \in {name} |-> NewCollector(name)]),
              !.ring = a.ring \cup {name}]

RECURSIVE addCollectors(_, _, _)
addCollectors(a, order, i) ==
    IF i > Len(order) THEN a
    ELSE addCollectors(addCollector(a, order[i]), order, i + 1)

\* the loop of lines 124-126 dropping a target whose owner is gone instead of
\* giving it to a live collector
RECURSIVE reallocateDropsOrphans(_, _, _)
reallocateDropsOrphans(a, order, i) ==
    IF i > Len(order) \/ a.panic THEN a
    ELSE IF a.targetItems[order[i]].CollectorName \in DOMAIN a.collectors
         THEN reallocateDropsOrphans(
                  addTargetToTargetItems(a, order[i], a.targetItems[order[i]]),
                  order, i + 1)
         ELSE reallocateDropsOrphans(
                  [a EXCEPT !.targetItems =
                       Restrict(a.targetItems, (DOMAIN a.targetItems) \ {order[i]})],
                  order, i + 1)

\* the loop of lines 124-126 visiting only the targets whose owner is gone
RECURSIVE reallocateOnlyOrphans(_, _, _)
reallocateOnlyOrphans(a, order, i) ==
    IF i > Len(order) \/ a.panic THEN a
    ELSE IF a.targetItems[order[i]].CollectorName \in DOMAIN a.collectors
         THEN reallocateOnlyOrphans(a, order, i + 1)
         ELSE reallocateOnlyOrphans(
                  addTargetToTargetItems(a, order[i], a.targetItems[order[i]]),
                  order, i + 1)

\* lines 124-126: every live target goes through addTargetToTargetItems again
RECURSIVE reallocate(_, _, _)
reallocate(a, order, i) ==
    IF i > Len(order) \/ a.panic THEN a
    ELSE reallocate(addTargetToTargetItems(a, order[i], a.targetItems[order[i]]),
                    order, i + 1)

\* handleCollectors without lines 124-126: no target is reallocated
handleCollectorsNoReallocate(a, d, rmOrder, addOrder, tgOrder) ==
    addCollectors(removeCollectors(a, rmOrder, 1), addOrder, 1)

handleCollectors(a, d, rmOrder, addOrder, tgOrder) ==
    reallocate(addCollectors(removeCollectors(a, rmOrder, 1), addOrder, 1), tgOrder, 1)

\* ------------------------------------------------------- public methods
\* SetTargets without the check of lines 139-142
collectorsAssumedPresent(a) == FALSE

\* line 139: len(c.collectors) == 0
noCollectorsPresent(a) == DOMAIN a.collectors = {}

\* SetCollectors without the check of lines 160-163
collectorsAssumedGiven(arg) == FALSE

\* line 160: len(collectors) == 0
noCollectorsGiven(arg) == DOMAIN arg = {}

\* lines 146 and 170: there are additions or removals
hasChanges(d) == DOMAIN d.additions # {} \/ DOMAIN d.removals # {}

\* both timers built with the label "SetTargets"
observeDurationOneLabel(h, method) == [h EXCEPT !["SetTargets"] = @ + 1]

\* lines 133-134 and 156-157: the deferred timer observes one duration
observeDuration(h, method) == [h EXCEPT ![method] = @ + 1]

\* line 159: CollectorsAllocatable...Set(float64(len(collectors)))
setAllocatable(arg) == [set |-> TRUE, v |-> Cardinality(DOMAIN arg)]

\* lines 139-149, under the lock
SetTargetsBody(a, targets, rmOrder, addOrder) ==
    IF noCollectorsPresent(a) THEN a
    ELSE LET targetsDiff == DiffMaps(a.targetItems, targets)
         IN  IF hasChanges(targetsDiff)
             THEN handleTargets(a, targetsDiff, rmOrder, addOrder)
             ELSE a

\* lines 160-173
SetCollectorsBody(a, arg, rmOrder, addOrder, tgOrder) ==
    IF noCollectorsGiven(arg) THEN a
    ELSE LET collectorsDiff == DiffMaps(a.collectors, arg)
         IN  IF hasChanges(collectorsDiff)
             THEN handleCollectors(a, collectorsDiff, rmOrder, addOrder, tgOrder)
             ELSE a

\* the iteration orders one SetTargets call may take
TargetRemovalKeys(a, targets) ==
    IF noCollectorsPresent(a) THEN {} ELSE DOMAIN DiffMaps(a.targetItems, targets).removals
TargetAdditionKeys(a, targets) ==
    IF noCollectorsPresent(a) THEN {} ELSE DOMAIN DiffMaps(a.targetItems, targets).additions
CollectorRemovalKeys(a, arg) ==
    IF noCollectorsGiven(arg) THEN {} ELSE DOMAIN DiffMaps(a.collectors, arg).removals
CollectorAdditionKeys(a, arg) ==
    IF noCollectorsGiven(arg) THEN {} ELSE DOMAIN DiffMaps(a.collectors, arg).additions

\* ------------------------------------------------------------ snapshots
\* TargetItems() and Collectors() copy the map, not the elements: an entry of
\* the returned map is the same *TargetItem / *Collector the allocator holds
\* for as long as the allocator keeps that object under that key (shared),
\* and an object of the caller's alone once the allocator has dropped or
\* replaced it (then val is its content).
NoSnapshot == [taken |-> FALSE, m |-> EmptyMap]

SharedEntry == [shared |-> TRUE, val |-> NoName]

\* the objects of `old` that are no longer the allocator's leave with their content
Detach(snap, old, replaced) ==
    [snap EXCEPT !.m = [k \in DOMAIN snap.m |->
        IF snap.m[k].shared /\ k \in replaced
        THEN [shared |-> FALSE, val |-> old[k]]
        ELSE snap.m[k]]]

TargetCollectorNames(items) == [k \in DOMAIN items |-> items[k].CollectorName]
CollectorCounts(cols) == [n \in DOMAIN cols |-> cols[n].NumTargets]

\* ---------------------------------------------------------------- Init
TargetMaps == UNION {[S -> [CollectorName : SuppliedCollectorNames]] : S \in SUBSET Keys}
CollectorMaps == {[n \in S |-> NewCollector(n)] : S \in SUBSET Names}

NoCall == [op |-> "none", arg |-> EmptyMap, diffEmpty |-> FALSE, repeat |-> FALSE,
           orphaned |-> {}, forgotten |-> {}, kept |-> {}, ignored |-> {}]

Calls == TimeToAssign["SetTargets"] + TimeToAssign["SetCollectors"]

\* the goroutines that call the public methods at the same time
Procs == {"g1", "g2"}
NoProc == "none"

\* a goroutine that is in no call
NoPending == [op |-> "none", arg |-> EmptyMap, rm |-> {}, add |-> {}, tg |-> {},
              pre |-> [collectors |-> EmptyMap, targetItems |-> EmptyMap, ring |-> {},
                       tpc |-> EmptyMap, panic |-> FALSE]]

\* the content of the live collections once a mutating call is complete
Remember(a) ==
    [targets |-> past.targets \cup {TargetCollectorNames(a.targetItems)},
     collectors |-> past.collectors \cup {CollectorCounts(a.collectors)}]

Init ==
    /\ seed \in 0..MaxSeed
    /\ consistentHasher = {}
    /\ collectors = EmptyMap
    /\ targetItems = EmptyMap
    /\ TargetsPerCollector = EmptyMap
    /\ CollectorsAllocatable = [set |-> FALSE, v |-> 0]
    /\ TimeToAssign = [m \in {"SetTargets", "SetCollectors"} |-> 0]
    /\ panicked = FALSE
    /\ lastCall = NoCall
    /\ snapTargets = NoSnapshot
    /\ snapCollectors = NoSnapshot
    /\ callerWrites = 0
    /\ past = [targets |-> {EmptyMap}, collectors |-> {EmptyMap}]
    /\ mutex = [w |-> NoProc, readers |-> {}]
    /\ pc = [p \in Procs |-> "idle"]
    /\ call = [p \in Procs |-> NoPending]

Install(a) ==
    /\ consistentHasher' = a.ring
    /\ collectors' = a.collectors
    /\ targetItems' = a.targetItems
    /\ TargetsPerCollector' = a.tpc
    /\ panicked' = a.panic

SetTargets(targets) ==
    /\ ~panicked
    /\ Calls < MaxCalls
    /\ \E rmOrder \in Orders(TargetRemovalKeys(AllocState, targets)),
          addOrder \in Orders(TargetAdditionKeys(AllocState, targets)) :
          \E a \in {SetTargetsBody(AllocState, targets, rmOrder, addOrder)} :
              /\ Install(a)
              /\ snapTargets' = Detach(snapTargets, TargetCollectorNames(targetItems),
                                       (DOMAIN targetItems) \ (DOMAIN a.targetItems))
    /\ TimeToAssign' = observeDuration(TimeToAssign, "SetTargets")
    /\ lastCall' = [op |-> "SetTargets", arg |-> targets,
                    diffEmpty |-> /\ ~noCollectorsPresent(AllocState)
                                  /\ ~hasChanges(DiffMaps(targetItems, targets)),
                    repeat |-> lastCall.op = "SetTargets" /\ lastCall.arg = targets,
                    orphaned |-> {},
                    forgotten |-> IF noCollectorsPresent(AllocState) THEN {}
                                  ELSE (DOMAIN targetItems) \ (DOMAIN targets),
                    kept |-> IF noCollectorsPresent(AllocState) THEN {}
                             ELSE (DOMAIN targetItems) \cap (DOMAIN targets),
                    ignored |-> IF noCollectorsPresent(AllocState) THEN DOMAIN targets
                                ELSE {}]
    /\ UNCHANGED <<seed, CollectorsAllocatable, snapCollectors, callerWrites, procVars>>

SetCollectors(arg) ==
    /\ ~panicked
    /\ Calls < MaxCalls
    /\ CollectorsAllocatable' = setAllocatable(arg)
    /\ \E rmOrder \in Orders(CollectorRemovalKeys(AllocState, arg)),
          addOrder \in Orders(CollectorAdditionKeys(AllocState, arg)),
          tgOrder \in Orders(DOMAIN targetItems) :
          \E a \in {SetCollectorsBody(AllocState, arg, rmOrder, addOrder, tgOrder)} :
          LET handled == ~noCollectorsGiven(arg) /\ hasChanges(DiffMaps(collectors, arg))
          IN  /\ Install(a)
              /\ snapTargets' = Detach(snapTargets, TargetCollectorNames(targetItems),
                                       IF handled THEN DOMAIN targetItems ELSE {})
              /\ snapCollectors' = Detach(snapCollectors, CollectorCounts(collectors),
                                          (DOMAIN collectors) \ (DOMAIN a.collectors))
    /\ TimeToAssign' = observeDuration(TimeToAssign, "SetCollectors")
    /\ lastCall' = [op |-> "SetCollectors", arg |-> arg,
                    diffEmpty |-> /\ ~noCollectorsGiven(arg)
                                  /\ ~hasChanges(DiffMaps(collectors, arg)),
                    repeat |-> lastCall.op = "SetCollectors" /\ lastCall.arg = arg,
                    orphaned |-> IF noCollectorsGiven(arg) THEN {}
                                 ELSE {k \in DOMAIN targetItems :
                                         /\ targetItems[k].CollectorName \in DOMAIN collectors
                                         /\ targetItems[k].CollectorName \notin DOMAIN arg},
                    forgotten |-> {},
                    kept |-> {},
                    ignored |-> lastCall.ignored]
    /\ UNCHANGED <<seed, callerWrites, procVars>>

\* TargetItems(): a new map with the allocator's *TargetItem values
TargetItems ==
    /\ ~panicked
    /\ snapTargets' = [taken |-> TRUE, m |-> [k \in DOMAIN targetItems |-> SharedEntry]]
    /\ lastCall' = [NoCall EXCEPT !.op = "TargetItems"]
    /\ UNCHANGED <<seed, past, procVars, allocVars, metricVars, snapCollectors, callerWrites>>

\* Collectors(): a new map with the allocator's *Collector values
Collectors ==
    /\ ~panicked
    /\ snapCollectors' = [taken |-> TRUE, m |-> [n \in DOMAIN collectors |-> SharedEntry]]
    /\ lastCall' = [NoCall EXCEPT !.op = "Collectors"]
    /\ UNCHANGED <<seed, past, procVars, allocVars, metricVars, snapTargets, callerWrites>>

\* what a reader finds in the map TargetItems() / Collectors() returned
TargetItemsResult == TargetCollectorNames(targetItems)
CollectorsResult == CollectorCounts(collectors)

\* The caller changes the map it was given: delete(snapshot, k)
CallerDeletesTargetEntry(k) ==
    /\ callerWrites < MaxWrites
    /\ callerWrites' = callerWrites + 1
    /\ snapTargets.taken /\ k \in DOMAIN snapTargets.m
    /\ snapTargets' = [snapTargets EXCEPT !.m = Restrict(@, (DOMAIN @) \ {k})]
    /\ lastCall' = [NoCall EXCEPT !.op = "snapshotMapWrite"]
    /\ UNCHANGED <<seed, past, procVars, allocVars, metricVars, snapCollectors>>

\* snapshot[k] = &TargetItem{CollectorName: name}, an object of the caller's
CallerAddsTargetEntry(k, name) ==
    /\ callerWrites < MaxWrites
    /\ callerWrites' = callerWrites + 1
    /\ snapTargets.taken /\ k \notin DOMAIN snapTargets.m
    /\ snapTargets' = [snapTargets EXCEPT !.m =
                          Overwrite(@, [x \in {k} |-> [shared |-> FALSE, val |-> name]])]
    /\ lastCall' = [NoCall EXCEPT !.op = "snapshotMapWrite"]
    /\ UNCHANGED <<seed, past, procVars, allocVars, metricVars, snapCollectors>>

\* snapshot[k].CollectorName = name: a write through the pointer in the map
CallerSetsCollectorName(k, name) ==
    /\ callerWrites < MaxWrites
    /\ callerWrites' = callerWrites + 1
    /\ snapTargets.taken /\ k \in DOMAIN snapTargets.m
    /\ IF snapTargets.m[k].shared
       THEN /\ targetItems' = [targetItems EXCEPT ![k].CollectorName = name]
            /\ UNCHANGED snapTargets
       ELSE /\ snapTargets' = [snapTargets EXCEPT !.m[k].val = name]
            /\ UNCHANGED targetItems
    /\ lastCall' = [NoCall EXCEPT !.op = "snapshotFieldWrite"]
    /\ UNCHANGED <<seed, past, procVars, consistentHasher, collectors, panicked,
                 metricVars, snapCollectors>>

CallerDeletesCollectorEntry(n) ==
    /\ callerWrites < MaxWrites
    /\ callerWrites' = callerWrites + 1
    /\ snapCollectors.taken /\ n \in DOMAIN snapCollectors.m
    /\ snapCollectors' = [snapCollectors EXCEPT !.m = Restrict(@, (DOMAIN @) \ {n})]
    /\ lastCall' = [NoCall EXCEPT !.op = "snapshotMapWrite"]
    /\ UNCHANGED <<seed, past, procVars, allocVars, metricVars, snapTargets>>

CallerAddsCollectorEntry(n) ==
    /\ callerWrites < MaxWrites
    /\ callerWrites' = callerWrites + 1
    /\ snapCollectors.taken /\ n \notin DOMAIN snapCollectors.m
    /\ snapCollectors' = [snapCollectors EXCEPT !.m =
                             Overwrite(@, [x \in {n} |-> [shared |-> FALSE, val |-> 0]])]
    /\ lastCall' = [NoCall EXCEPT !.op = "snapshotMapWrite"]
    /\ UNCHANGED <<seed, past, procVars, allocVars, metricVars, snapTargets>>

\* snapshot[n].NumTargets = v
CallerSetsNumTargets(n, v) ==
    /\ callerWrites < MaxWrites
    /\ callerWrites' = callerWrites + 1
    /\ snapCollectors.taken /\ n \in DOMAIN snapCollectors.m
    /\ IF snapCollectors.m[n].shared
       THEN /\ collectors' = [collectors EXCEPT ![n].NumTargets = v]
            /\ UNCHANGED snapCollectors
       ELSE /\ snapCollectors' = [snapCollectors EXCEPT !.m[n].val = v]
            /\ UNCHANGED collectors
    /\ lastCall' = [NoCall EXCEPT !.op = "snapshotFieldWrite"]
    /\ UNCHANGED <<seed, past, procVars, consistentHasher, targetItems, panicked,
                 metricVars, snapTargets>>

Next ==
    \/ \E targets \in TargetMaps : SetTargets(targets) /\ UNCHANGED past
    \/ \E arg \in CollectorMaps : SetCollectors(arg) /\ UNCHANGED past

Spec == Init /\ [][Next]_vars

\* the four public methods, and a caller that writes to the maps it was given
WrittenNumTargets == {0, 1}

NextSnap ==
    \/ \E targets \in TargetMaps : SetTargets(targets) /\ UNCHANGED past
    \/ \E arg \in CollectorMaps : SetCollectors(arg) /\ UNCHANGED past
    \/ TargetItems
    \/ Collectors
    \/ \E k \in Keys : CallerDeletesTargetEntry(k)
    \/ \E k \in Keys, name \in SuppliedCollectorNames : CallerAddsTargetEntry(k, name)
    \/ \E k \in Keys, name \in CollectorNameValues : CallerSetsCollectorName(k, name)
    \/ \E n \in Names : CallerDeletesCollectorEntry(n)
    \/ \E n \in Names : CallerAddsCollectorEntry(n)
    \/ \E n \in Names, v \in WrittenNumTargets : CallerSetsNumTargets(n, v)

SpecSnap == Init /\ [][NextSnap]_vars

\* the four public methods, and a caller that only reads the maps it was given;
\* the content each complete mutating call leaves is remembered
NextRead ==
    \/ \E targets \in TargetMaps : SetTargets(targets) /\ past' = Remember(AllocState')
    \/ \E arg \in CollectorMaps : SetCollectors(arg) /\ past' = Remember(AllocState')
    \/ TargetItems
    \/ Collectors

SpecRead == Init /\ [][NextRead]_vars

\* what a reader finds now in a map it was given: the value of an object the
\* allocator still holds is the value the allocator has given it since
SnapshotView(snap, current) ==
    [k \in DOMAIN snap.m |-> IF snap.m[k].shared THEN current[k] ELSE snap.m[k].val]

\* --------------------------------------------------- concurrent callers
\* The public methods called by goroutines that run at the same time. A call
\* proceeds in the steps another goroutine can tell apart: the statements before
\* the lock, the acquisition of c.m, each iteration of a loop under the lock, the
\* deferred Unlock and ObserveDuration.

\* mutating calls begun so far
Started == Calls + Cardinality({p \in Procs : call[p].op \in {"SetTargets", "SetCollectors"}})

\* Lock() entered while another writer is inside
writerAlwaysEnters(mx) == TRUE

\* sync.RWMutex: Lock() passes once no other writer is pending or inside
writerMayEnter(mx) == mx.w = NoProc

\* sync.RWMutex: the pending writer waits for the readers inside to leave
readersGone(mx) == mx.readers = {}

\* sync.RWMutex: RLock() passes unless a writer is pending or inside
readerMayEnter(mx) == mx.w = NoProc

\* Unlock() that leaves the lock taken
releaseKeepsWriter(mx) == mx

\* Unlock()
release(mx) == [mx EXCEPT !.w = NoProc]

\* line 133: the timer starts; the goroutine goes on to c.m.Lock() (line 136)
CallSetTargets(p, targets) ==
    /\ ~panicked
    /\ pc[p] = "idle"
    /\ Started < MaxCalls
    /\ pc' = [pc EXCEPT ![p] = "Lock"]
    /\ call' = [call EXCEPT ![p] = [NoPending EXCEPT !.op = "SetTargets", !.arg = targets]]
    /\ UNCHANGED <<seed, allocVars, metricVars, lastCall, snapVars, past, mutex>>

\* lines 156-163: the timer starts, the gauge is set, an empty argument returns;
\* otherwise the goroutine goes on to c.m.Lock() (line 165)
CallSetCollectors(p, arg) ==
    /\ ~panicked
    /\ pc[p] = "idle"
    /\ Started < MaxCalls
    /\ CollectorsAllocatable' = setAllocatable(arg)
    /\ IF noCollectorsGiven(arg)
       THEN /\ TimeToAssign' = observeDuration(TimeToAssign, "SetCollectors")
            /\ UNCHANGED <<pc, call>>
       ELSE /\ pc' = [pc EXCEPT ![p] = "Lock"]
            /\ call' = [call EXCEPT ![p] = [NoPending EXCEPT !.op = "SetCollectors",
                                                             !.arg = arg]]
            /\ UNCHANGED TimeToAssign
    /\ UNCHANGED <<seed, allocVars, TargetsPerCollector, lastCall, snapVars, past, mutex>>

\* c.m.Lock(), first half: the goroutine becomes the pending writer
Lock(p) ==
    /\ ~panicked
    /\ pc[p] = "Lock"
    /\ writerMayEnter(mutex)
    /\ mutex' = [mutex EXCEPT !.w = p]
    /\ pc' = [pc EXCEPT ![p] = "pending"]
    /\ UNCHANGED <<seed, allocVars, metricVars, lastCall, snapVars, past, call>>

\* c.m.Lock() returns; lines 139-146 / 169-170: the checks and the diff, which
\* fix what the loops will visit
Locked(p) ==
    /\ ~panicked
    /\ pc[p] = "pending"
    /\ readersGone(mutex)
    /\ pc' = [pc EXCEPT ![p] = "locked"]
    /\ call' = [call EXCEPT ![p] =
           IF call[p].op = "SetTargets"
           THEN [@ EXCEPT !.rm = TargetRemovalKeys(AllocState, call[p].arg),
                          !.add = TargetAdditionKeys(AllocState, call[p].arg),
                          !.pre = AllocState]
           ELSE [@ EXCEPT !.rm = CollectorRemovalKeys(AllocState, call[p].arg),
                          !.add = CollectorAdditionKeys(AllocState, call[p].arg),
                          !.tg = IF hasChanges(DiffMaps(collectors, call[p].arg))
                                 THEN DOMAIN targetItems ELSE {},
                          !.pre = AllocState]]
    /\ UNCHANGED <<seed, allocVars, metricVars, lastCall, snapVars, past, mutex>>

\* lines 85-93, one iteration that removes
RemoveTargetStep(p, k) ==
    /\ ~panicked
    /\ pc[p] = "locked" /\ call[p].op = "SetTargets"
    /\ k \in call[p].rm
    /\ Install(removeTargets(AllocState, <<k>>, 1))
    /\ call' = [call EXCEPT ![p].rm = @ \ {k}]
    /\ UNCHANGED <<seed, CollectorsAllocatable, TimeToAssign, lastCall, snapVars, past,
                   mutex, pc>>

\* lines 96-104, one iteration
AddTargetStep(p, k) ==
    /\ ~panicked
    /\ pc[p] = "locked" /\ call[p].op = "SetTargets"
    /\ call[p].rm = {}
    /\ k \in call[p].add
    /\ Install(addTargets(AllocState, call[p].arg, <<k>>, 1))
    /\ call' = [call EXCEPT ![p].add = @ \ {k}]
    /\ UNCHANGED <<seed, CollectorsAllocatable, TimeToAssign, lastCall, snapVars, past,
                   mutex, pc>>

\* lines 112-116, one iteration
RemoveCollectorStep(p, n) ==
    /\ ~panicked
    /\ pc[p] = "locked" /\ call[p].op = "SetCollectors"
    /\ n \in call[p].rm
    /\ Install(removeCollectors(AllocState, <<n>>, 1))
    /\ call' = [call EXCEPT ![p].rm = @ \ {n}]
    /\ UNCHANGED <<seed, CollectorsAllocatable, TimeToAssign, lastCall, snapVars, past,
                   mutex, pc>>

\* lines 118-121, one iteration
AddCollectorStep(p, n) ==
    /\ ~panicked
    /\ pc[p] = "locked" /\ call[p].op = "SetCollectors"
    /\ call[p].rm = {}
    /\ n \in call[p].add
    /\ Install(addCollectors(AllocState, <<n>>, 1))
    /\ call' = [call EXCEPT ![p].add = @ \ {n}]
    /\ UNCHANGED <<seed, CollectorsAllocatable, TimeToAssign, lastCall, snapVars, past,
                   mutex, pc>>

\* lines 124-126, one iteration
ReallocateStep(p, k) ==
    /\ ~panicked
    /\ pc[p] = "locked" /\ call[p].op = "SetCollectors"
    /\ call[p].rm = {} /\ call[p].add = {}
    /\ k \in call[p].tg
    /\ Install(reallocate(AllocState, <<k>>, 1))
    /\ call' = [call EXCEPT ![p].tg = @ \ {k}]
    /\ UNCHANGED <<seed, CollectorsAllocatable, TimeToAssign, lastCall, snapVars, past,
                   mutex, pc>>

\* the return: the deferred c.m.Unlock() and timer.ObserveDuration()
Unlock(p) ==
    /\ ~panicked
    /\ pc[p] = "locked"
    /\ call[p].rm = {} /\ call[p].add = {} /\ call[p].tg = {}
    /\ mutex' = release(mutex)
    /\ TimeToAssign' = observeDuration(TimeToAssign, call[p].op)
    /\ pc' = [pc EXCEPT ![p] = "idle"]
    /\ call' = [call EXCEPT ![p] = NoPending]
    /\ UNCHANGED <<seed, allocVars, TargetsPerCollector, CollectorsAllocatable, lastCall,
                   snapVars, past>>

\* TargetItems() / Collectors() called: the goroutine goes on to c.m.RLock()
CallTargetItems(p) ==
    /\ ~panicked
    /\ pc[p] = "idle"
    /\ pc' = [pc EXCEPT ![p] = "RLock"]
    /\ call' = [call EXCEPT ![p] = [NoPending EXCEPT !.op = "TargetItems"]]
    /\ UNCHANGED <<seed, allocVars, metricVars, lastCall, snapVars, past, mutex>>

CallCollectors(p) ==
    /\ ~panicked
    /\ pc[p] = "idle"
    /\ pc' = [pc EXCEPT ![p] = "RLock"]
    /\ call' = [call EXCEPT ![p] = [NoPending EXCEPT !.op = "Collectors"]]
    /\ UNCHANGED <<seed, allocVars, metricVars, lastCall, snapVars, past, mutex>>

\* lines 178 / 189: c.m.RLock()
RLock(p) ==
    /\ ~panicked
    /\ pc[p] = "RLock"
    /\ readerMayEnter(mutex)
    /\ mutex' = [mutex EXCEPT !.readers = @ \cup {p}]
    /\ pc' = [pc EXCEPT ![p] = "rlocked"]
    /\ UNCHANGED <<seed, allocVars, metricVars, lastCall, snapVars, past, call>>

\* lines 180-184 / 191-195: the copy, the return and the deferred c.m.RUnlock()
RUnlock(p) ==
    /\ ~panicked
    /\ pc[p] = "rlocked"
    /\ mutex' = [mutex EXCEPT !.readers = @ \ {p}]
    /\ pc' = [pc EXCEPT ![p] = "idle"]
    /\ call' = [call EXCEPT ![p] = NoPending]
    /\ UNCHANGED <<seed, allocVars, metricVars, lastCall, snapVars, past>>

\* one step of goroutine p inside a call
Proceed(p) ==
    \/ Lock(p)
    \/ Locked(p)
    \/ \E k \in Keys : RemoveTargetStep(p, k)
    \/ \E k \in Keys : AddTargetStep(p, k)
    \/ \E n \in Names : RemoveCollectorStep(p, n)
    \/ \E n \in Names : AddCollectorStep(p, n)
    \/ \E k \in Keys : ReallocateStep(p, k)
    \/ Unlock(p)
    \/ RLock(p)
    \/ RUnlock(p)

NextConc ==
    \/ \E p \in Procs, targets \in TargetMaps : CallSetTargets(p, targets)
    \/ \E p \in Procs, arg \in CollectorMaps : CallSetCollectors(p, arg)
    \/ \E p \in Procs : CallTargetItems(p)
    \/ \E p \in Procs : CallCollectors(p)
    \/ \E p \in Procs : Proceed(p)

SpecConc == Init /\ [][NextConc]_vars

\* Termination is looked at for one hash function and for targets that arrive
\* without a CollectorName: neither decides which statements a call executes.
InitFair == Init /\ seed = 0

NewTargetMaps == {t \in TargetMaps : \A k \in DOMAIN t : t[k].CollectorName = NoName}

NextFair ==
    \/ \E p \in Procs, targets \in NewTargetMaps : CallSetTargets(p, targets)
    \/ \E p \in Procs, arg \in CollectorMaps : CallSetCollectors(p, arg)
    \/ \E p \in Procs : CallTargetItems(p)
    \/ \E p \in Procs : CallCollectors(p)
    \/ \E p \in Procs : Proceed(p)

\* goroutines scheduled fairly: one that can go on, and stays able to, does
SpecConcFair ==
    /\ InitFair
    /\ [][NextFair]_vars
    /\ \A p \in Procs : WF_vars(Proceed(p))

\* the states one call, made alone on the state it locked, can leave
SerialResults(c) ==
    IF c.op = "SetTargets"
    THEN {SetTargetsBody(c.pre, c.arg, rmOrder, addOrder) :
              rmOrder \in Orders(TargetRemovalKeys(c.pre, c.arg)),
              addOrder \in Orders(TargetAdditionKeys(c.pre, c.arg))}
    ELSE UNION {{SetCollectorsBody(c.pre, c.arg, rmOrder, addOrder, tgOrder) :
                     rmOrder \in Orders(CollectorRemovalKeys(c.pre, c.arg)),
                     addOrder \in Orders(CollectorAdditionKeys(c.pre, c.arg))} :
                tgOrder \in Orders(DOMAIN c.pre.targetItems)}

\* ------------------------------------------------------------- claims
LiveNames == DOMAIN collectors
LiveKeys == DOMAIN targetItems
Owner(k) == targetItems[k].CollectorName
TotalNumTargets == SumOver(CollectorCounts(collectors), LiveNames)

\* C1: the NumTargets of the live collectors add up to the number of live
\* targets in every reachable state.
C1_Conservation == TotalNumTargets = Cardinality(LiveKeys)

\* C2: every live target's CollectorName is non-empty and names a live
\* collector.
C2_NoOrphanOwnership ==
    \A k \in LiveKeys : Owner(k) # NoName /\ Owner(k) \in LiveNames

\* a call has removed a collector that owned targets, and targets are live
C2_Witness ==
    /\ lastCall.op = "SetCollectors"
    /\ lastCall.orphaned # {}
    /\ lastCall.orphaned \subseteq LiveKeys

\* C3: after SetTargets(T) with a live collector, the live keys are exactly
\* the keys of T, each assigned to a live collector.
C3_SetTargetsReplaces ==
    (lastCall.op = "SetTargets" /\ LiveNames # {}) =>
        /\ LiveKeys = DOMAIN lastCall.arg
        /\ \A k \in DOMAIN lastCall.arg : Owner(k) \in LiveNames

\* a SetTargets call that added one key and forgot another
C3_Witness ==
    /\ lastCall.op = "SetTargets"
    /\ LiveNames # {}
    /\ lastCall.forgotten # {}
    /\ LiveKeys # {}
    /\ LiveKeys \cap lastCall.forgotten = {}

\* C4: after SetCollectors(C) with C non-empty, the live collector names are
\* exactly the keys of C.
C4_SetCollectorsReplaces ==
    (lastCall.op = "SetCollectors" /\ DOMAIN lastCall.arg # {}) =>
        LiveNames = DOMAIN lastCall.arg

\* a SetCollectors call that removed a collector owning targets
C4_Witness ==
    /\ lastCall.op = "SetCollectors"
    /\ lastCall.orphaned # {}
    /\ LiveNames = DOMAIN lastCall.arg
    /\ \E n \in DOMAIN TargetsPerCollector : n \notin LiveNames

\* what removal safety asks of one SetCollectors step for a collector X that
\* is live before the call and not in its argument
RemovedSafely(X) ==
    /\ X \notin DOMAIN collectors'
    /\ \A k \in DOMAIN targetItems' : targetItems'[k].CollectorName # X
    /\ \A k \in LiveKeys : Owner(k) = X =>
           /\ k \in DOMAIN targetItems'
           /\ targetItems'[k].CollectorName \in (DOMAIN collectors') \ {X}

\* C5 as stated: every SetCollectors call whose argument lacks a live collector
\* X removes X and hands its targets to other live collectors.
C5_RemovalSafetyAnyArgument ==
    [][lastCall'.op = "SetCollectors" =>
          \A X \in LiveNames \ DOMAIN lastCall'.arg : RemovedSafely(X)]_vars

\* C5, amended: the same for every SetCollectors call with a non-empty argument.
C5_RemovalSafety ==
    [][(lastCall'.op = "SetCollectors" /\ DOMAIN lastCall'.arg # {}) =>
          \A X \in LiveNames \ DOMAIN lastCall'.arg : RemovedSafely(X)]_vars

\* a collector that owned targets was removed, its targets live on
C5_Witness ==
    /\ lastCall.op = "SetCollectors"
    /\ DOMAIN lastCall.arg # {}
    /\ lastCall.orphaned # {}
    /\ \A k \in lastCall.orphaned : k \in LiveKeys /\ Owner(k) \in DOMAIN lastCall.arg

\* C6: SetTargets with no live collector returns normally and changes neither
\* the targets, the collectors, the ring, nor what TargetItems() returns.
C6_SetTargetsWithoutCollectors ==
    [][(lastCall'.op = "SetTargets" /\ LiveNames = {}) =>
          /\ ~panicked'
          /\ UNCHANGED <<targetItems, collectors, consistentHasher>>
          /\ TargetItemsResult' = TargetItemsResult]_vars

\* SetTargets was given targets while no collector was live
C6_Witness ==
    /\ lastCall.op = "SetTargets"
    /\ LiveNames = {}
    /\ DOMAIN lastCall.arg # {}

\* C7: SetCollectors with an empty argument does not fail and leaves the
\* collectors, the ring, the targets, their owners and the counts as they were.
C7_SetCollectorsEmpty ==
    [][(lastCall'.op = "SetCollectors" /\ DOMAIN lastCall'.arg = {}) =>
          /\ ~panicked'
          /\ UNCHANGED <<targetItems, collectors, consistentHasher>>]_vars

\* SetCollectors({}) was called with collectors and targets live
C7_Witness ==
    /\ lastCall.op = "SetCollectors"
    /\ DOMAIN lastCall.arg = {}
    /\ LiveNames # {}
    /\ LiveKeys # {}

\* C8: a call that repeats the call before it (same method, same full set)
\* leaves targets, owners, collectors, counts and ring as the first call left
\* them.
C8_Idempotence ==
    [][lastCall'.repeat =>
          UNCHANGED <<targetItems, collectors, consistentHasher, panicked>>]_vars

\* SetTargets was repeated with a non-empty set while collectors are live
C8_Witness ==
    /\ lastCall.repeat
    /\ lastCall.op = "SetTargets"
    /\ LiveNames # {}
    /\ LiveKeys # {}

\* C9 as stated: a call whose diff is empty updates no metric.
C9_NoMetricUpdateOnEmptyDiff ==
    [][lastCall'.diffEmpty => UNCHANGED metricVars]_vars

\* C9, amended: a call whose diff is empty changes no allocator state and no
\* per-collector gauge; it records one latency observation under its own
\* method label, and SetCollectors sets the allocatable gauge to the size of
\* its argument.
C9_EmptyDiffMetrics ==
    [][lastCall'.diffEmpty =>
          /\ UNCHANGED <<targetItems, collectors, consistentHasher, TargetsPerCollector>>
          /\ TimeToAssign' = [TimeToAssign EXCEPT ![lastCall'.op] = @ + 1]
          /\ IF lastCall'.op = "SetCollectors"
             THEN CollectorsAllocatable' =
                      [set |-> TRUE, v |-> Cardinality(DOMAIN lastCall'.arg)]
             ELSE UNCHANGED CollectorsAllocatable]_vars

\* a SetCollectors call computed an empty diff after the gauge had been set to 0
C9_Witness ==
    /\ lastCall.diffEmpty
    /\ lastCall.op = "SetCollectors"
    /\ Calls = 3
    /\ CollectorsAllocatable.v = Cardinality(LiveNames)

\* C10: no write a caller makes to a returned snapshot (map entries added or
\* deleted, a field of an element changed) shows in the allocator's state.
C10_SnapshotIndependence ==
    [][lastCall'.op \in {"snapshotMapWrite", "snapshotFieldWrite"} =>
          UNCHANGED <<targetItems, collectors, consistentHasher>>]_vars

\* C11: what a reader sees through a map returned by TargetItems() or
\* Collectors() is the content the allocator had at one point between two
\* complete mutating calls, whatever calls were made after the map was returned.
C11_PointInTimeSnapshots ==
    /\ snapTargets.taken =>
           SnapshotView(snapTargets, TargetCollectorNames(targetItems)) \in past.targets
    /\ snapCollectors.taken =>
           SnapshotView(snapCollectors, CollectorCounts(collectors)) \in past.collectors

\* the order a range takes when it visits the keys in ascending order
AscendingOrder(S) == [i \in 1..Cardinality(S) |-> Nth(S, i - 1)]

\* C13: the target-to-collector mapping a call leaves does not depend on the
\* order in which the additions and removals of its diff and the live targets
\* are iterated: the mapping, the live collector names and the ring are those
\* the ascending order gives, so two runs fed the same calls from empty end
\* with the same mapping.
C13_Determinism ==
    [][/\ lastCall'.op = "SetTargets" =>
              \E rmOrder \in {AscendingOrder(TargetRemovalKeys(AllocState, lastCall'.arg))},
                 addOrder \in {AscendingOrder(TargetAdditionKeys(AllocState, lastCall'.arg))} :
                  \E a \in {SetTargetsBody(AllocState, lastCall'.arg, rmOrder, addOrder)} :
                      /\ TargetCollectorNames(targetItems') = TargetCollectorNames(a.targetItems)
                      /\ DOMAIN collectors' = DOMAIN a.collectors
                      /\ consistentHasher' = a.ring
                      /\ panicked' = a.panic
       /\ lastCall'.op = "SetCollectors" =>
              \E rmOrder \in {AscendingOrder(CollectorRemovalKeys(AllocState, lastCall'.arg))},
                 addOrder \in {AscendingOrder(CollectorAdditionKeys(AllocState, lastCall'.arg))},
                 tgOrder \in {AscendingOrder(LiveKeys)} :
                  \E a \in {SetCollectorsBody(AllocState, lastCall'.arg,
                                              rmOrder, addOrder, tgOrder)} :
                      /\ TargetCollectorNames(targetItems') = TargetCollectorNames(a.targetItems)
                      /\ DOMAIN collectors' = DOMAIN a.collectors
                      /\ consistentHasher' = a.ring
                      /\ panicked' = a.panic]_vars

\* one call re-allocated two targets whose owner it removed
C13_Witness ==
    /\ lastCall.op = "SetCollectors"
    /\ Cardinality(lastCall.orphaned) >= 2
    /\ lastCall.orphaned \subseteq LiveKeys

GaugeValue(n) == IF n \in DOMAIN TargetsPerCollector THEN TargetsPerCollector[n] ELSE 0

\* C14: between calls the TargetsPerCollector gauge of every live collector
\* equals its NumTargets (unset counting as 0) and the gauge of every removed
\* collector is 0.
C14_GaugeConsistency ==
    /\ \A n \in LiveNames : GaugeValue(n) = collectors[n].NumTargets
    /\ \A n \in (DOMAIN TargetsPerCollector) \ LiveNames : TargetsPerCollector[n] = 0

\* a collector that owned targets was removed and another one has them
C14_Witness ==
    /\ lastCall.op = "SetCollectors"
    /\ lastCall.orphaned # {}
    /\ \E n \in (DOMAIN TargetsPerCollector) \ LiveNames : TargetsPerCollector[n] = 0
    /\ \E n \in LiveNames : GaugeValue(n) > 0

\* C16: a target whose key is live and in the argument of SetTargets keeps its
\* record and owner, and adds nothing to any count: each live collector's count
\* changes by the additions it receives, less the removals it owned, less the
\* additions that carried its name; keys in both sets do not enter.
C16_CommonKeysUntouched ==
    [][lastCall'.op = "SetTargets" =>
          LET arg == lastCall'.arg
              added == (DOMAIN arg) \ LiveKeys
              removed == LiveKeys \ (DOMAIN arg)
          IN  /\ \A k \in LiveKeys \cap (DOMAIN arg) :
                     k \in DOMAIN targetItems' /\ targetItems'[k] = targetItems[k]
              /\ \A c \in LiveNames :
                     collectors'[c].NumTargets - collectors[c].NumTargets =
                         Cardinality({k \in added : targetItems'[k].CollectorName = c})
                         - Cardinality({k \in removed : Owner(k) = c})
                         - Cardinality({k \in added : arg[k].CollectorName = c})]_vars

\* SetTargets was repeated with a target whose supplied CollectorName differs
\* from the live record's
C16_Witness ==
    /\ lastCall.op = "SetTargets"
    /\ lastCall.repeat
    /\ \E k \in LiveKeys \cap (DOMAIN lastCall.arg) :
           /\ lastCall.arg[k].CollectorName # Owner(k)
           /\ lastCall.arg[k].CollectorName \in LiveNames

\* C17: SetCollectors leaves the set of live target keys, and so their number,
\* as it was.
C17_KeysStableUnderSetCollectors ==
    [][lastCall'.op = "SetCollectors" =>
          /\ DOMAIN targetItems' = LiveKeys
          /\ Cardinality(DOMAIN targetItems') = Cardinality(LiveKeys)]_vars

\* a SetCollectors call changed the owner of both live targets
C17_Witness ==
    /\ lastCall.op = "SetCollectors"
    /\ lastCall.orphaned = Keys
    /\ LiveKeys = Keys
    /\ \A k \in Keys : Owner(k) \in DOMAIN lastCall.arg

\* the goroutines inside the exclusive section of c.m
Inside == {p \in Procs : pc[p] = "locked"}

\* C12: concurrent SetTargets and SetCollectors calls take effect one at a time
\* in the order they get the lock: at most one goroutine is inside the exclusive
\* section, the live collections change only by a step of that goroutine, and
\* when it returns the live targets, owners, collectors, counts and ring are
\* those the call leaves when made alone on the state it found.
C12_Serialization ==
    [][/\ Cardinality(Inside') <= 1
       /\ allocVars' # allocVars => Inside # {} /\ Inside' = Inside
       /\ \A p \in Procs :
              pc[p] = "locked" /\ pc'[p] = "idle" =>
                  \E a \in SerialResults(call[p]) :
                      /\ a.targetItems = targetItems'
                      /\ a.collectors = collectors'
                      /\ a.ring = consistentHasher']_vars

\* a SetTargets call has added one of its two targets while a SetCollectors
\* call of another goroutine waits for the lock
C12_Witness ==
    \E p \in Procs, q \in Procs :
        /\ pc[p] = "locked" /\ call[p].op = "SetTargets"
        /\ call[p].add # {} /\ LiveKeys # {} /\ LiveKeys \subseteq DOMAIN call[p].arg
        /\ call[p].pre.targetItems = EmptyMap
        /\ pc[q] = "Lock" /\ call[q].op = "SetCollectors"

\* C15: no call meets a missing collector: whenever a loop is about to remove a
\* target its owner is live, whenever a loop is about to pass a target to
\* addTargetToTargetItems there is a live collector and the ring owner of the
\* target is live, and no nil dereference has happened.
C15_NoMissingCollector ==
    /\ ~panicked
    /\ \A p \in Inside :
           /\ call[p].op = "SetTargets" =>
                  /\ \A k \in call[p].rm :
                         targetItems[k].CollectorName \in LiveNames
                  /\ \A k \in call[p].add :
                         LiveNames # {} /\ LocateKey(consistentHasher, k) \in LiveNames
           /\ call[p].op = "SetCollectors" /\ call[p].rm = {} /\ call[p].add = {} =>
                  \A k \in call[p].tg :
                      LiveNames # {} /\ LocateKey(consistentHasher, k) \in LiveNames

\* a target whose owner was removed waits for its re-allocation while another
\* goroutine waits in RLock
C15_Witness ==
    \E p \in Procs, q \in Procs :
        /\ pc[p] = "locked" /\ call[p].op = "SetCollectors"
        /\ call[p].rm = {} /\ call[p].add = {}
        /\ \E k \in call[p].tg : targetItems[k].CollectorName \notin LiveNames
        /\ pc[q] = "RLock"

\* goroutine p passes target k to addTargetToTargetItems in this step
Reassigns(p, k) ==
    /\ pc[p] = "locked"
    /\ \/ k \in call[p].tg \ call'[p].tg
       \/ k \in call[p].add \ call'[p].add /\ call[p].op = "SetTargets"

\* the CollectorName the target passed to addTargetToTargetItems carries
PriorOwner(p, k) ==
    IF call[p].op = "SetTargets" THEN call[p].arg[k].CollectorName
    ELSE targetItems[k].CollectorName

\* C18 as written: when the prior owner of the target passed to
\* addTargetToTargetItems is no longer live, a count is decremented (a live
\* collector's NumTargets, or the gauge of the prior owner).
C18_DecrementWhenPriorNotLive ==
    [][\A p \in Procs, k \in Keys :
           /\ Reassigns(p, k)
           /\ PriorOwner(p, k) # NoName
           /\ PriorOwner(p, k) \notin LiveNames
           => \/ \E c \in LiveNames : collectors'[c].NumTargets < collectors[c].NumTargets
              \/ /\ PriorOwner(p, k) \in DOMAIN TargetsPerCollector
                 /\ TargetsPerCollector'[PriorOwner(p, k)]
                        < TargetsPerCollector[PriorOwner(p, k)]]_vars

\* C18: addTargetToTargetItems decrements the count of the prior owner exactly
\* when that collector is still live, and increments the count of the ring
\* owner: a live collector's count goes down by one if it is the prior owner
\* and up by one if it is the new owner, and no other count changes; when the
\* prior owner is not live no count is decremented.
C18_DecrementWhenPriorLive ==
    [][\A p \in Procs, k \in Keys :
           Reassigns(p, k) =>
               /\ DOMAIN collectors' = LiveNames
               /\ \A c \in LiveNames :
                      collectors'[c].NumTargets =
                          collectors[c].NumTargets
                          - (IF c = PriorOwner(p, k) THEN 1 ELSE 0)
                          + (IF c = targetItems'[k].CollectorName THEN 1 ELSE 0)
               /\ PriorOwner(p, k) \notin LiveNames =>
                      \A c \in LiveNames :
                          collectors'[c].NumTargets >= collectors[c].NumTargets]_vars

\* a call is in its re-allocation loop, has re-allocated a target whose prior
\* owner is live, and a target whose owner is gone is still to come
C18_Witness ==
    \E p \in Procs :
        /\ pc[p] = "locked" /\ call[p].op = "SetCollectors"
        /\ call[p].rm = {} /\ call[p].add = {}
        /\ \E k \in LiveKeys \ call[p].tg :
               /\ k \in DOMAIN call[p].pre.targetItems
               /\ call[p].pre.targetItems[k].CollectorName \in LiveNames
        /\ \E k \in call[p].tg : Owner(k) \notin LiveNames

\* C19: under fair scheduling every call of SetTargets, SetCollectors,
\* TargetItems or Collectors returns, and without a nil dereference.
C19_EveryCallReturns ==
    \A p \in Procs : (pc[p] # "idle") ~> (pc[p] = "idle" /\ ~panicked)

\* a reader waits in RLock behind a pending writer, which waits for the other
\* goroutine's call to finish
C19_Witness ==
    \E p \in Procs, q \in Procs :
        /\ pc[p] = "RLock"
        /\ pc[q] = "pending"
        /\ mutex.w = q

\* C21: between calls the members of the ring are the live collectors and the
\* CollectorName of every live target is the owner the ring locates for its key
\* now; so the assignment is a function of the live collectors and the live
\* target keys, whatever calls came before.
C21_RingAgreement ==
    /\ consistentHasher = LiveNames
    /\ \A k \in LiveKeys : Owner(k) = LocateKey(consistentHasher, k)

\* SetCollectors added a collector and removed none, and a live target is now
\* owned by another collector than the one whose count it had raised
C21_Witness ==
    /\ lastCall.op = "SetCollectors"
    /\ ~lastCall.diffEmpty
    /\ lastCall.orphaned = {}
    /\ Cardinality(LiveKeys) = 1
    /\ \E k \in LiveKeys, n \in LiveNames :
           /\ n # Owner(k)
           /\ n \in DOMAIN TargetsPerCollector
           /\ TargetsPerCollector[n] = 0
           /\ collectors[n].NumTargets = 0
           /\ collectors[Owner(k)].NumTargets = 1

\* C22: a call that finds a live collector leaves a live collector, whatever
\* its argument, and after every call targets are live only if a collector is.
C22_CollectorsStayNonEmpty ==
    [][/\ LiveNames # {} => DOMAIN collectors' # {}
       /\ DOMAIN targetItems' # {} => DOMAIN collectors' # {}]_vars

\* SetCollectors({}) has returned after one SetCollectors and one SetTargets
\* call, and the collectors and targets they left are still live
C22_Witness ==
    /\ lastCall.op = "SetCollectors"
    /\ DOMAIN lastCall.arg = {}
    /\ TimeToAssign["SetCollectors"] = 2
    /\ TimeToAssign["SetTargets"] = 1
    /\ LiveNames # {}
    /\ LiveKeys # {}

\* the supplied targets with the CollectorName field emptied
WithoutCollectorName(targets) == [k \in DOMAIN targets |-> [CollectorName |-> NoName]]

\* C23: what SetTargets(T) leaves depends on the keys of T only: the owners and
\* the per-collector counts are those the call leaves when every supplied
\* target carries an empty CollectorName.
C23_CollectorNameIgnored ==
    [][lastCall'.op = "SetTargets" =>
          \E plain \in {WithoutCollectorName(lastCall'.arg)} :
          \E rmOrder \in {AscendingOrder(TargetRemovalKeys(AllocState, plain))},
             addOrder \in {AscendingOrder(TargetAdditionKeys(AllocState, plain))} :
              \E a \in {SetTargetsBody(AllocState, plain, rmOrder, addOrder)} :
                  /\ TargetCollectorNames(targetItems') = TargetCollectorNames(a.targetItems)
                  /\ CollectorCounts(collectors') = CollectorCounts(a.collectors)]_vars

\* C24: after every SetCollectors call the CollectorsAllocatable gauge is the
\* number of live collectors.
C24_AllocatableIsLiveCount ==
    [][lastCall'.op = "SetCollectors" =>
          CollectorsAllocatable'.v = Cardinality(DOMAIN collectors')]_vars

\* C25: once every goroutine has returned from its call, a CollectorsAllocatable
\* gauge last set by a SetCollectors call with a non-empty argument is the
\* number of live collectors.
C25_AllocatableAfterConcurrentCalls ==
    (\A p \in Procs : pc[p] = "idle") /\ CollectorsAllocatable.v > 0 =>
        CollectorsAllocatable.v = Cardinality(LiveNames)

\* C26: a SetTargets call that finds no collector leaves no target live; a
\* SetCollectors call that finds no target live leaves none live, also when it
\* brings the first collectors; and a SetTargets call that finds a collector
\* leaves exactly the supplied targets live, each owned by a live collector.
C26_TargetsWithoutCollectorsNotRetained ==
    [][/\ lastCall'.op = "SetTargets" /\ LiveNames = {} =>
              targetItems' = EmptyMap
       /\ lastCall'.op = "SetCollectors" /\ LiveKeys = {} =>
              targetItems' = EmptyMap
       /\ lastCall'.op = "SetTargets" /\ LiveNames # {} =>
              /\ DOMAIN targetItems' = DOMAIN lastCall'.arg
              /\ \A k \in DOMAIN targetItems' :
                     targetItems'[k].CollectorName \in DOMAIN collectors']_vars

\* the first collectors have arrived after a SetTargets call had supplied
\* targets, and no target is live
C26_Witness ==
    /\ lastCall.op = "SetCollectors"
    /\ lastCall.ignored # {}
    /\ LiveNames # {}
    /\ LiveKeys = {}

\* C27: a SetTargets call leaves the live collector names and the ring members
\* as they were, changes of a collector nothing but its NumTargets, and leaves
\* the owner of every target that stays live as it was.
C27_SetTargetsKeepsMembership ==
    [][lastCall'.op = "SetTargets" =>
          /\ DOMAIN collectors' = LiveNames
          /\ consistentHasher' = consistentHasher
          /\ \A n \in LiveNames : collectors'[n].Name = collectors[n].Name
          /\ \A k \in LiveKeys \cap DOMAIN targetItems' :
                 targetItems'[k].CollectorName = Owner(k)]_vars

\* a SetTargets call took the last target from a collector and kept another
\* target, whose owner is live
C27_Witness ==
    /\ lastCall.op = "SetTargets"
    /\ lastCall.forgotten # {}
    /\ lastCall.kept # {}
    /\ lastCall.kept \subseteq LiveKeys
    /\ \E n \in LiveNames : collectors[n].NumTargets = 0 /\ n \in DOMAIN TargetsPerCollector

====
